---- MODULE Spec2Model ----
(***************************************************************************)
(* Model of skrud_bot.py: the chat handler lambda_handler, the text        *)
(* extractors (_get_stock_symbol, _is_bitcoin, _find_interval), the lazily *)
(* loaded quote objects (Interval, StockData, BtcData) and the external    *)
(* calls the handler makes (time-series fetch, live-rate lookup, chat      *)
(* send, render dispatch), recorded in order in `calls`.                   *)
(*                                                                         *)
(* Text is a sequence of one-character strings.  Python's None is the      *)
(* empty tuple and a present value x is the one-element tuple <<x>>.       *)
(* Dates are naturals standing for ISO date strings: their numeric order   *)
(* is the strings' lexicographic order.  Close values are in cents.        *)
(***************************************************************************)
EXTENDS Integers, Sequences, FiniteSets, TLC

VARIABLES pc, message_text, channel, stock_symbol, interval_length, interval,
          sd, graph, current_value, mean_value, date_range, message,
          calls, exc, av, ret

(***************************************************************************)
(* pc            where lambda_handler stands                                *)
(* message_text  slack_event['text'];  channel  slack_event['channel']      *)
(* stock_symbol, interval_length, interval, sd, graph, current_value,       *)
(* message       the handler's locals of the same names                     *)
(* mean_value, date_range  the arguments of format() evaluated at line 256  *)
(* calls         the external calls made so far, in order                   *)
(* exc           the exception raised in this invocation, None when none;   *)
(*               it escaped the handler when pc = "crashed"                 *)
(* av            the series the provider holds for the symbol, once served  *)
(* ret           where the handler continues when _load returns             *)
(***************************************************************************)
vars == <<pc, message_text, channel, stock_symbol, interval_length, interval,
          sd, graph, current_value, mean_value, date_range, message,
          calls, exc, av, ret>>

None == <<>>

Some(x) == <<x>>

(***************************************************************************)
(* Bounds of the model.                                                    *)
(***************************************************************************)
\* number of distinct dates the provider can serve
MaxDates == 2

\* longest ticker the regular expression captures: \w{,8}
TickerMax == 8

\* most digits the interval expression captures: \d{1,3}
DigitsMax == 3

\* BtcData's default window: interval_length or 7
BtcDefaultLength == 7

(***************************************************************************)
(* Characters.                                                             *)
(***************************************************************************)
LowerSeq == <<"a","b","c","d","e","f","g","h","i","j","k","l","m",
              "n","o","p","q","r","s","t","u","v","w","x","y","z">>

UpperSeq == <<"A","B","C","D","E","F","G","H","I","J","K","L","M",
              "N","O","P","Q","R","S","T","U","V","W","X","Y","Z">>

DigitSeq == <<"0","1","2","3","4","5","6","7","8","9">>

Range(s) == {s[i] : i \in DOMAIN s}

Digits == Range(DigitSeq)

LowerLetters == Range(LowerSeq)

\* \w of a str pattern: letters, digits and the underscore
WordChars == Range(LowerSeq) \cup Range(UpperSeq) \cup Range(DigitSeq) \cup {"_"}

\* str.upper() on each lower-case letter
UpperMap == [ c \in LowerLetters |-> UpperSeq[CHOOSE i \in DOMAIN LowerSeq : LowerSeq[i] = c] ]

IsDigit(c) == c \in Digits

IsWordChar(c) == c \in WordChars

\* str.upper() on one character
UpperChar(c) == IF c \in LowerLetters THEN UpperMap[c] ELSE c

Upper(s) == [i \in DOMAIN s |-> UpperChar(s[i])]

DigitVal(c) == (CHOOSE i \in DOMAIN DigitSeq : DigitSeq[i] = c) - 1

\* int(s) for a string of decimal digits
RECURSIVE ParseInt(_)
ParseInt(s) ==
    IF s = <<>> THEN 0
    ELSE 10 * ParseInt(SubSeq(s, 1, Len(s) - 1)) + DigitVal(s[Len(s)])

\* '{}'.format(n) for a natural n
RECURSIVE FormatInt(_)
FormatInt(n) ==
    IF n < 10 THEN <<DigitSeq[n + 1]>>
    ELSE FormatInt(n \div 10) \o <<DigitSeq[(n % 10) + 1]>>

\* whether word w occurs in text t at position i
OccursAt(t, w, i) ==
    /\ i >= 1
    /\ i + Len(w) - 1 <= Len(t)
    /\ \A k \in 1..Len(w) : t[i + k - 1] = w[k]

\* re.search of a literal
Contains(t, w) == \E i \in 1..Len(t) : OccursAt(t, w, i)

(***************************************************************************)
(* Text extractors.                                                        *)
(***************************************************************************)
\* the longest run of word characters of t starting at position i, at most n long
RECURSIVE WordRun(_, _, _)
WordRun(t, i, n) ==
    IF n = 0 \/ i > Len(t) \/ ~IsWordChar(t[i]) THEN <<>>
    ELSE <<t[i]>> \o WordRun(t, i + 1, n - 1)

\* re.search(r'\$(\w{,8})', text): the leftmost "$" matches, with a group
\* that may be empty; the group is upper-cased
_get_stock_symbol(text) ==
    IF \E i \in 1..Len(text) : text[i] = "$"
    THEN LET i == CHOOSE j \in 1..Len(text) :
                      /\ text[j] = "$"
                      /\ \A k \in 1..(j - 1) : text[k] # "$"
         IN  Some(Upper(WordRun(text, i + 1, TickerMax)))
    ELSE None

BitcoinWords == { <<"b","i","t","c","o","i","n">>, <<"U+20BF">>, <<"b","t","c">> }

\* re.search(r'(bitcoin|₿|btc)', text), as a truth value
_is_bitcoin(text) == \E w \in BitcoinWords : Contains(text, w)

Intraday == <<"i","n","t","r","a","d","a","y">>

Daily == <<"d","a","i","l","y">>

Weekly == <<"w","e","e","k","l","y">>

Monthly == <<"m","o","n","t","h","l","y">>

term_map == [ t \in { <<"d","a","y","s">>, <<"m","o","n","t","h","s">>, <<"w","e","e","k","s">> } |->
                IF t = <<"d","a","y","s">> THEN Daily
                ELSE IF t = <<"m","o","n","t","h","s">> THEN Monthly
                ELSE Weekly ]

\* a term_map that lost its 'weeks' entry
to_interval_no_weeks(term) ==
    IF term = <<"d","a","y","s">> THEN Daily
    ELSE IF term = <<"m","o","n","t","h","s">> THEN Monthly
    ELSE Intraday

\* StockData.to_interval
to_interval(term) ==
    IF term \in DOMAIN term_map THEN term_map[term] ELSE Intraday

\* the unit words of the pattern (days|weeks|months)
UnitWords == { <<"d","a","y","s">>, <<"w","e","e","k","s">>, <<"m","o","n","t","h","s">> }

\* (\d{1,3})(days|weeks|months) matches at position i with k digits
IntervalMatchAt(t, i, k) ==
    /\ i + k - 1 <= Len(t)
    /\ \A j \in i..(i + k - 1) : IsDigit(t[j])
    /\ \E w \in UnitWords : OccursAt(t, w, i + k)

\* re.search(r'(\d{1,3})(days|weeks|months)', text): the leftmost match;
\* the result is <<interval_length, interval>>
_find_interval(text) ==
    IF \E i \in 1..Len(text) : \E k \in 1..DigitsMax : IntervalMatchAt(text, i, k)
    THEN LET i == CHOOSE j \in 1..Len(text) :
                      /\ \E k \in 1..DigitsMax : IntervalMatchAt(text, j, k)
                      /\ \A h \in 1..(j - 1) : \A k \in 1..DigitsMax : ~IntervalMatchAt(text, h, k)
             k == CHOOSE n \in 1..DigitsMax : IntervalMatchAt(text, i, n)
             w == CHOOSE u \in UnitWords : OccursAt(text, u, i + k)
         IN  << Some(ParseInt(SubSeq(text, i, i + k - 1))), Some(to_interval(w)) >>
    ELSE << None, None >>

\* a search for "nograph" that ignores letter case
HasNoGraphAnyCase(text) == Contains(Upper(text), <<"N","O","G","R","A","P","H">>)

\* re.search(r'nograph', message_text), as a truth value
HasNoGraph(text) == Contains(text, <<"n","o","g","r","a","p","h">>)

(***************************************************************************)
(* Inbound events: the message text is an intent part, a number, a unit    *)
(* word and a flag word, separated by blanks.                              *)
(***************************************************************************)
IntentParts ==
    { <<>>,
      <<"$">>,
      <<"$","a","a","p","l">>,
      <<"$"," ","$","a","a","p","l">>,
      <<"b","t","c">>,
      <<"B","T","C">>,
      <<"b","i","t","c","o","i","n">>,
      <<"B","i","t","c","o","i","n">>,
      <<"U+20BF">>,
      <<"$","a","a","p","l"," ","b","t","c">> }

NumberParts ==
    { <<>>, <<"0">>, <<"1">>, <<"2">>, <<"1","4">>, <<"0","0","7">>, <<"1","2","3","4">> }

UnitParts ==
    { <<>>, <<"d","a","y","s">>, <<"w","e","e","k","s">>, <<"m","o","n","t","h","s">>,
      <<"d","e","c","a","d","e","s">> }

FlagParts == { <<>>, <<"n","o","g","r","a","p","h">>, <<"N","O","G","R","A","P","H">> }

Texts ==
    { a \o <<" ">> \o n \o u \o <<" ">> \o f :
        a \in IntentParts, n \in NumberParts, u \in UnitParts, f \in FlagParts }

Channels == { "C1", "C2" }

(***************************************************************************)
(* The financial-data provider.                                            *)
(***************************************************************************)
Dates == 1..MaxDates

\* close values the provider can report, in cents
CloseValues == { 1000, 2550 }

\* the live exchange rate, in cents
ExchangeRate == 3075

\* the date of the live rate: one of the series' dates, or a later day
RateDates == 1..(MaxDates + 1)

DataMaps == UNION { [S -> CloseValues] : S \in SUBSET Dates }

\* '3. Last Refreshed' for equities, '6. Last Refreshed' for crypto
LastRefreshedKey(kind) ==
    IF kind = "stock" THEN "3. Last Refreshed" ELSE "6. Last Refreshed"

\* the provider's metadata: empty, or holding the refresh date
MetaMaps(kind) == { <<>> } \cup { [k \in {LastRefreshedKey(kind)} |-> d] : d \in {MaxDates} }

Responses(kind) == { [data |-> f, metadata |-> m] : f \in DataMaps, m \in MetaMaps(kind) }

\* the text of the ValueError the data client raises
ApiError == "api error"

(***************************************************************************)
(* Interval, StockData, BtcData.                                           *)
(***************************************************************************)
\* Python's truth value of a dict, list or None
Truthy(opt) == opt # None /\ DOMAIN opt[1] # {}

\* Python's truth value of an int or None
TruthyInt(opt) == opt # None /\ opt[1] # 0

\* `is not None` in place of the truth value of a str
TruthyStrNotNone(opt) == opt # None

\* Python's truth value of a str or None
TruthyStr(opt) == opt # None /\ opt[1] # <<>>

\* the property guards `if not self._data`, `if not self._metadata`
NeedsLoad(cached) == ~Truthy(cached)

Max(a, b) == IF a > b THEN a ELSE b

\* max(S) of a non-empty set
MaxOf(S) == CHOOSE x \in S : \A y \in S : y <= x

\* sorted(S)
RECURSIVE Sorted(_)
Sorted(S) ==
    IF S = {} THEN <<>>
    ELSE LET m == MaxOf(S) IN Sorted(S \ {m}) \o <<m>>

\* s[:n] in place of s[-n:]
TrailingLeading(s, n) ==
    IF n = 0 THEN s ELSE SubSeq(s, 1, IF n < Len(s) THEN n ELSE Len(s))

\* s[-n:]
Trailing(s, n) ==
    IF n = 0 THEN s ELSE SubSeq(s, Max(1, Len(s) - n + 1), Len(s))

\* Interval.__init__ (StockData passes its arguments through); the interval
\* comes from to_interval and is always one of INTERVALS, so line 40 never raises
StockData(symbol, itv, len) ==
    [ kind |-> "stock", symbol |-> symbol,
      interval |-> IF TruthyStr(itv) THEN itv[1] ELSE Intraday,
      interval_length |-> len,
      market |-> "$",
      data |-> None, metadata |-> None, dates |-> None ]

\* BtcData.__init__: interval or 'daily', interval_length or 7
BtcData(itv, len) ==
    [ kind |-> "btc", symbol |-> <<"B","T","C">>,
      interval |-> IF TruthyStr(itv) THEN itv[1] ELSE Daily,
      interval_length |-> IF TruthyInt(len) THEN len ELSE Some(BtcDefaultLength),
      market |-> "USD",
      data |-> None, metadata |-> None, dates |-> None ]

\* Interval.dates, computed from the loaded data
ComputeDates(data, len) ==
    LET all == Sorted(DOMAIN data)
    IN  IF TruthyInt(len) THEN Trailing(all, len[1]) ELSE all

\* '{0:.2f}'.format(v) of a value in cents: whole part and two decimals
TwoDecimals(cents) == [ whole |-> cents \div 100, frac |-> cents % 100 ]

\* Interval.current_value: the close of the latest date of the data
CurrentValue(data) == TwoDecimals(data[MaxOf(DOMAIN data)])

RECURSIVE SumSeq(_)
SumSeq(s) == IF s = <<>> THEN 0 ELSE s[1] + SumSeq(Tail(s))

\* Interval.mean_value over the windowed dates, rounded to the cent
MeanValue(data, dates) ==
    LET close_values == [i \in DOMAIN dates |-> data[dates[i]]]
        n == Len(close_values)
    IN  IF n > 0
        THEN TwoDecimals((2 * SumSeq(close_values) + n) \div (2 * n))
        ELSE [ whole |-> 0, frac |-> 0 ]

\* StockData.graph / BtcData.graph
Graph(o, dates) ==
    [ xaxis |-> dates,
      yaxis |-> [i \in DOMAIN dates |-> o.data[1][dates[i]]],
      title |-> [ symbol |-> o.symbol, start |-> dates[1], end |-> dates[Len(dates)] ],
      xlabel |-> "Time",
      ylabel |-> o.market ]

\* last_refreshed: self.metadata.get(key, None)
LastRefreshed(o) ==
    IF LastRefreshedKey(o.kind) \in DOMAIN o.metadata[1]
    THEN Some(o.metadata[1][LastRefreshedKey(o.kind)])
    ELSE None

(***************************************************************************)
(* lambda_handler, one action per step between external calls.             *)
(***************************************************************************)
NoObject == [ kind |-> "none" ]

ApologyText == "Could not find stock symbol or bitcoin in the message text."

Init ==
    /\ pc = "idle"
    /\ message_text = <<>>
    /\ channel = "C1"
    /\ stock_symbol = None
    /\ interval_length = None
    /\ interval = None
    /\ sd = NoObject
    /\ graph = None
    /\ current_value = None
    /\ mean_value = None
    /\ date_range = None
    /\ message = None
    /\ calls = <<>>
    /\ exc = None
    /\ av = None
    /\ ret = "none"

\* which branch of lines 231-240 the handler takes
Intent(text) ==
    IF TruthyStr(_get_stock_symbol(text)) THEN "stock"
    ELSE IF _is_bitcoin(text) THEN "btc"
    ELSE "none"

\* lines 225-240: the event is read, the text is parsed, the quote object is built
Receive ==
    /\ pc = "idle"
    /\ \E text \in Texts, ch \in Channels :
        LET found == _find_interval(text)
            kind == Intent(text)
        IN  /\ message_text' = text
            /\ channel' = ch
            /\ interval_length' = found[1]
            /\ interval' = found[2]
            /\ stock_symbol' = IF kind = "btc" THEN Some(<<"B","T","C">>)
                               ELSE _get_stock_symbol(text)
            /\ sd' = IF kind = "stock"
                     THEN StockData(_get_stock_symbol(text)[1], found[2], found[1])
                     ELSE IF kind = "btc" THEN BtcData(found[2], found[1])
                     ELSE NoObject
            /\ pc' = IF kind = "none" THEN "apology" ELSE "graph"
    /\ UNCHANGED <<graph, current_value, mean_value, date_range, message,
                   calls, exc, av, ret>>

\* lines 238-240: no ticker and no bitcoin word
SendApology ==
    /\ pc = "apology"
    /\ calls' = Append(calls, [ op |-> "send", channel |-> channel,
                                text |-> [ kind |-> "apology", body |-> ApologyText ] ])
    /\ pc' = "done"
    /\ UNCHANGED <<message_text, channel, stock_symbol, interval_length, interval,
                   sd, graph, current_value, mean_value, date_range, message,
                   exc, av, ret>>

\* line 244, entering sd.graph(): date_range reads dates, dates reads data,
\* and data loads when nothing truthy is cached
GraphStart ==
    /\ pc = "graph"
    /\ IF NeedsLoad(sd.data)
       THEN pc' = "fetch" /\ ret' = "graph_body"
       ELSE pc' = "graph_body" /\ ret' = ret
    /\ UNCHANGED <<message_text, channel, stock_symbol, interval_length, interval,
                   sd, graph, current_value, mean_value, date_range, message,
                   calls, exc, av>>

\* where a ValueError raised inside _load lands: the try of lines 243-253
\* covers only sd.graph() and sd.current_value
AfterValueError(r) == IF r = "graph_body" THEN "error_reply" ELSE "crashed"

\* _load, the time-series call (lines 108-109, 154-156): the provider answers
\* with its series for the symbol, or the client raises ValueError
Fetch ==
    /\ pc = "fetch"
    /\ calls' = Append(calls, [ op |-> "fetch", symbol |-> sd.symbol,
                                interval |-> sd.interval ])
    /\ \/ /\ exc' = Some([ type |-> "ValueError", text |-> ApiError ])
          /\ pc' = AfterValueError(ret)
          /\ UNCHANGED <<sd, av>>
       \/ \E resp \in Responses(sd.kind) :
            /\ av = None \/ av = Some(resp)
            /\ av' = Some(resp)
            /\ sd' = [sd EXCEPT !.data = Some(resp.data),
                                !.metadata = Some(resp.metadata)]
            /\ pc' = IF sd.kind = "btc" THEN "enrich" ELSE ret
            /\ exc' = exc
    /\ UNCHANGED <<message_text, channel, stock_symbol, interval_length, interval,
                   graph, current_value, mean_value, date_range, message, ret>>

\* BtcData._load, lines 158-166: the live-rate lookup and its injection
Enrich ==
    /\ pc = "enrich"
    /\ calls' = Append(calls, [ op |-> "rate", symbol |-> sd.symbol ])
    /\ \/ \* the lookup raises ValueError (or its timestamp does not split in
          \* two, a ValueError as well): caught and logged
          /\ pc' = ret
          /\ UNCHANGED <<sd, exc>>
       \/ \E d \in RateDates :
            IF d \in DOMAIN sd.data[1]
            THEN /\ sd' = [sd EXCEPT
                        !.data = Some([sd.data[1] EXCEPT ![d] = ExchangeRate]),
                        !.metadata = Some([k \in DOMAIN sd.metadata[1] \cup {LastRefreshedKey("btc")} |->
                                             IF k = LastRefreshedKey("btc") THEN d
                                             ELSE sd.metadata[1][k]])]
                 /\ pc' = ret
                 /\ exc' = exc
            ELSE \* self._data[date_str] raises KeyError, which nothing catches
                 /\ exc' = Some([ type |-> "KeyError", text |-> "date" ])
                 /\ pc' = "crashed"
                 /\ sd' = sd
    /\ UNCHANGED <<message_text, channel, stock_symbol, interval_length, interval,
                   graph, current_value, mean_value, date_range, message, av, ret>>

\* lines 244-245 once the data is there: sd.graph() and sd.current_value
GraphBody ==
    /\ pc = "graph_body"
    /\ LET dates == IF sd.dates = None \/ sd.dates[1] = <<>>
                    THEN ComputeDates(sd.data[1], sd.interval_length)
                    ELSE sd.dates[1]
       IN  /\ sd' = [sd EXCEPT !.dates = Some(dates)]
           /\ IF dates = <<>>
              THEN \* self.dates[0] raises IndexError, which is no ValueError
                   /\ exc' = Some([ type |-> "IndexError", text |-> "list index out of range" ])
                   /\ pc' = "crashed"
                   /\ UNCHANGED <<graph, current_value>>
              ELSE /\ graph' = Some(Graph(sd, dates))
                   /\ current_value' = Some(CurrentValue(sd.data[1]))
                   /\ pc' = "compose"
                   /\ exc' = exc
    /\ UNCHANGED <<message_text, channel, stock_symbol, interval_length, interval,
                   mean_value, date_range, message, calls, av, ret>>

\* lines 255-258, the arguments of format() in order: mean_value, date_range,
\* then last_refreshed, whose metadata read loads when nothing truthy is cached
Compose ==
    /\ pc = "compose"
    /\ mean_value' = Some(MeanValue(sd.data[1], sd.dates[1]))
    /\ date_range' = Some(<< sd.dates[1][1], sd.dates[1][Len(sd.dates[1])] >>)
    /\ IF NeedsLoad(sd.metadata)
       THEN pc' = "fetch" /\ ret' = "compose_body"
       ELSE pc' = "compose_body" /\ ret' = ret
    /\ UNCHANGED <<message_text, channel, stock_symbol, interval_length, interval,
                   sd, graph, current_value, message, calls, exc, av>>

\* lines 255-263: the reply text is composed; on the graph path the payload's
\* 'date' reads last_refreshed, and so the metadata, once more
ComposeBody ==
    /\ pc = "compose_body"
    /\ message' = Some([ kind |-> "quote",
                         symbol |-> stock_symbol[1],
                         current_value |-> current_value[1],
                         mean_value |-> mean_value[1],
                         range |-> date_range[1],
                         last_refreshed |-> LastRefreshed(sd) ])
    /\ IF HasNoGraph(message_text)
       THEN pc' = "send_reply" /\ ret' = ret
       ELSE IF NeedsLoad(sd.metadata)
            THEN pc' = "fetch" /\ ret' = "payload"
            ELSE pc' = "payload" /\ ret' = ret
    /\ UNCHANGED <<message_text, channel, stock_symbol, interval_length, interval,
                   sd, graph, current_value, mean_value, date_range, calls, exc, av>>

\* lines 271-275: the payload's interval field
IntervalField(len, itv) ==
    IF TruthyInt(len) /\ TruthyStr(itv)
    THEN FormatInt(len[1]) \o itv[1]
    ELSE Intraday

\* lines 261-284: the payload is built and handed to the render function
Invoke ==
    /\ pc = "payload"
    /\ calls' = Append(calls,
          [ op |-> "invoke",
            payload |-> [ symbol |-> stock_symbol[1],
                          date |-> LastRefreshed(sd),
                          graph |-> graph[1],
                          message_text |-> message[1],
                          destination |-> [ slack_channel |-> channel ],
                          interval |-> IntervalField(interval_length, interval) ] ])
    /\ pc' = "done"
    /\ UNCHANGED <<message_text, channel, stock_symbol, interval_length, interval,
                   sd, graph, current_value, mean_value, date_range, message,
                   exc, av, ret>>

\* lines 285-288: "nograph" was in the text
SendReply ==
    /\ pc = "send_reply"
    /\ calls' = Append(calls, [ op |-> "send", channel |-> channel, text |-> message[1] ])
    /\ pc' = "done"
    /\ UNCHANGED <<message_text, channel, stock_symbol, interval_length, interval,
                   sd, graph, current_value, mean_value, date_range, message,
                   exc, av, ret>>

\* lines 246-253: the ValueError is turned into a chat message
ErrorReply ==
    /\ pc = "error_reply"
    /\ calls' = Append(calls, [ op |-> "send", channel |-> channel,
                                text |-> [ kind |-> "error",
                                           symbol |-> stock_symbol[1],
                                           error |-> exc[1].text ] ])
    /\ pc' = "done"
    /\ UNCHANGED <<message_text, channel, stock_symbol, interval_length, interval,
                   sd, graph, current_value, mean_value, date_range, message,
                   exc, av, ret>>

Next ==
    \/ Receive
    \/ SendApology
    \/ GraphStart
    \/ Fetch
    \/ Enrich
    \/ GraphBody
    \/ Compose
    \/ ComposeBody
    \/ Invoke
    \/ SendReply
    \/ ErrorReply

Spec == Init /\ [][Next]_vars

(***************************************************************************)
(* Properties.                                                             *)
(***************************************************************************)
\* the external calls of one kind made so far
CallsOf(op) == SelectSeq(calls, LAMBDA c : c.op = op)

NoGraphWord == <<"n","o","g","r","a","p","h">>

\* the quote was built and the reply text composed (line 255 completed)
QuoteBuilt == message # None

\* a "$" immediately followed by a word character
HasTickerMention(text) ==
    \E i \in 1..(Len(text) - 1) : text[i] = "$" /\ IsWordChar(text[i + 1])

\* "bitcoin" or "btc" in any letter case, or the bitcoin sign
HasCryptoMention(text) ==
    LET upper == Upper(text)
    IN  \E w \in { Upper(v) : v \in BitcoinWords } : Contains(upper, w)

C2_FetchErrorHandled ==
    (exc # None /\ exc[1].type = "ValueError") =>
        /\ pc # "crashed"
        /\ CallsOf("invoke") = <<>>
        /\ pc = "done" =>
              CallsOf("send") = << [ op |-> "send", channel |-> channel,
                                     text |-> [ kind |-> "error",
                                                symbol |-> stock_symbol[1],
                                                error |-> exc[1].text ] ] >>

\* C3: a text with neither a ticker nor a crypto keyword gets exactly one chat
\* message, the apology, on the originating channel, with no time-series
\* fetch, no live-rate lookup and no render dispatch.
C3_ApologyOnly ==
    LET ApologyOnly ==
            /\ pc \in { "apology", "done" }
            /\ Len(calls) <= 1
            /\ pc = "done" => Len(calls) = 1
            /\ \A i \in DOMAIN calls :
                  calls[i] = [ op |-> "send", channel |-> channel,
                               text |-> [ kind |-> "apology", body |-> ApologyText ] ]
    IN  \* (no ticker /\ no crypto word) => ApologyOnly, cheapest disjunct first
        pc # "idle" =>
            \/ ApologyOnly
            \/ HasTickerMention(message_text)
            \/ HasCryptoMention(message_text)

C3_Witness ==
    /\ pc = "done"
    /\ channel = "C2"
    /\ ~HasTickerMention(message_text)
    /\ ~HasCryptoMention(message_text)
    /\ Contains(message_text, <<"$">>)
    /\ Len(calls) = 1

\* C4: an empty date mapping from the provider is handled like a data error:
\* once _load has returned it, nothing escapes the handler, one error chat
\* message names the symbol, and nothing is dispatched.
C4_EmptyDataHandled ==
    (sd.kind # "none" /\ sd.data = Some(<<>>) /\ pc \notin { "enrich", "fetch" }
        /\ ~(exc # None /\ exc[1].type = "KeyError")) =>
        /\ pc # "crashed"
        /\ CallsOf("invoke") = <<>>
        /\ pc = "done" =>
              /\ Len(CallsOf("send")) = 1
              /\ CallsOf("send")[1].text.kind = "error"
              /\ CallsOf("send")[1].text.symbol = stock_symbol[1]

\* C5: whatever the live-rate lookup does (raise, or return a rate dated inside
\* or outside the fetched series), the enrichment step propagates no failure:
\* _load completes and the handler goes on with the fetched data.
C5_EnrichNeverPropagates ==
    (Len(calls) > 0 /\ calls[Len(calls)].op = "rate") =>
        /\ pc # "crashed"
        /\ pc = ret
        /\ sd.data # None

\* the unit word standing at position i of the text, among the words given
UnitAt(text, i, words) == CHOOSE w \in words : OccursAt(text, w, i)

\* the canonical unit of a unit word
Canonical(w) ==
    IF w = <<"d","a","y","s">> THEN Daily
    ELSE IF w = <<"w","e","e","k","s">> THEN Weekly
    ELSE IF w = <<"m","o","n","t","h","s">> THEN Monthly
    ELSE Intraday

\* 1 to 3 digits at position i of the text, immediately followed by one of the words
NumberAndUnitAt(text, i, k, words) ==
    /\ k \in 1..3
    /\ i >= 1
    /\ i + k - 1 <= Len(text)
    /\ \A j \in i..(i + k - 1) : IsDigit(text[j])
    /\ \E w \in words : OccursAt(text, w, i + k)

\* what the extractor is to return when the unit words are `words`: the
\* leftmost number-and-unit, or (None, None)
ExpectedInterval(text, words) ==
    IF \E i \in 1..Len(text), k \in 1..3 : NumberAndUnitAt(text, i, k, words)
    THEN LET i == CHOOSE j \in 1..Len(text) :
                      /\ \E k \in 1..3 : NumberAndUnitAt(text, j, k, words)
                      /\ \A h \in 1..(j - 1), k \in 1..3 : ~NumberAndUnitAt(text, h, k, words)
             k == CHOOSE n \in 1..3 : NumberAndUnitAt(text, i, n, words)
         IN  << Some(ParseInt(SubSeq(text, i, i + k - 1))),
                Some(Canonical(UnitAt(text, i + k, words))) >>
    ELSE << None, None >>

RecognizedUnits == { <<"d","a","y","s">>, <<"w","e","e","k","s">>, <<"m","o","n","t","h","s">> }

UnrecognizedUnits == { <<"d","e","c","a","d","e","s">> }

\* _find_interval has just returned (line 230) and the branch is chosen
IntervalFound == pc \in { "apology", "graph" }

IsLatest(s, D, n) ==
    /\ Len(s) = n
    /\ \A i \in 1..Len(s) : s[i] \in D
    /\ \A i \in 1..(Len(s) - 1) : s[i] < s[i + 1]
    /\ \A d \in D : (\A i \in 1..Len(s) : s[i] # d) => (\A i \in 1..Len(s) : d < s[i])

\* the quote object as sd.graph() and sd.current_value left it (lines 244-245)
QuoteComputed == pc = "compose"

\* the quote object holds the n latest dates as its window, the graph spans
\* them, and current_value is the close of the latest date of the whole data
WindowIs(n) ==
    LET D == DOMAIN sd.data[1]
        s == sd.dates[1]
    IN  /\ D # {}
        /\ IsLatest(s, D, n)
        /\ graph[1].xaxis = s
        /\ graph[1].title.start = s[1]
        /\ graph[1].title.end = s[Len(s)]
        /\ \E d \in D : /\ \A e \in D : e <= d
                        /\ current_value[1] = TwoDecimals(sd.data[1][d])

\* date_range, as passed to format(), is the first and the last of dates
RangeIsEnds ==
    date_range # None =>
        date_range[1] = << sd.dates[1][1], sd.dates[1][Len(sd.dates[1])] >>

\* C7 as stated: dates is the ascending trailing N dates, all of them when N
\* is absent or exceeds their number; date_range is the first and the last of
\* these; current_value is the close of the latest date of the whole data.
C7_Original ==
    /\ QuoteComputed =>
          LET count == Cardinality(DOMAIN sd.data[1])
              N == sd.interval_length
          IN  WindowIs(IF N = None \/ N[1] > count THEN count ELSE N[1])
    /\ RangeIsEnds

\* C7 as amended: dates is the ascending trailing N dates, all of them when N
\* is absent, zero or not below their number; date_range (the graph title's
\* start and end) is the first and the last of these; current_value is the
\* close of the latest date of the whole data, whatever N is.
C7_Window ==
    /\ QuoteComputed =>
          LET count == Cardinality(DOMAIN sd.data[1])
              N == sd.interval_length
          IN  WindowIs(IF N = None \/ N[1] = 0 \/ N[1] >= count THEN count ELSE N[1])
    /\ RangeIsEnds

C7_Witness ==
    /\ QuoteComputed
    /\ sd.interval_length = Some(1)
    /\ Cardinality(DOMAIN sd.data[1]) = 2
    /\ sd.data[1][1] # sd.data[1][2]
    /\ sd.dates[1] = << 2 >>

\* C8: a text with a crypto word in any letter case (or the bitcoin sign) and
\* no $ticker takes the crypto intent, with a BtcData quote for BTC; a text
\* with a $ticker takes the stock intent.
C8_Intent ==
    pc # "idle" =>
        /\ (HasCryptoMention(message_text) /\ ~HasTickerMention(message_text)) =>
              (sd.kind = "btc" /\ stock_symbol = Some(<<"B","T","C">>))
        /\ HasTickerMention(message_text) => sd.kind = "stock"

\* C9: in every forwarded payload the interval field is "<length><unit>" when
\* _find_interval parsed a length (0 to 999) and a unit, and "intraday" only
\* when no interval was parsed.
C9_IntervalField ==
    \A i \in DOMAIN calls :
        calls[i].op = "invoke" =>
            calls[i].payload.interval =
                IF interval_length # None /\ interval # None
                THEN FormatInt(interval_length[1]) \o interval[1]
                ELSE Intraday

\* C10: within one invocation the time-series fetch happens at most once,
\* whatever the provider returns, and before the chat send or the dispatch.
C10_FetchOnce ==
    /\ Len(CallsOf("fetch")) <= 1
    /\ \A i, j \in DOMAIN calls :
          (calls[i].op = "fetch" /\ calls[j].op \in { "send", "invoke" }) => i < j

====
